---- MODULE Spec2Model ----
(***************************************************************************)
(* Model of the ICMP gap-filling subsystem of absl/icmp:                   *)
(*   IcmpTextSet / IcmpText      (icmp_text.cc, icmp_text.h)               *)
(*   IcmpProperties              (icmp_inlining.cc, icmp_inlining.h)       *)
(*   IcmpStringView              (icmp_string_view.cc, icmp_string_view.h) *)
(*   IcmpUUID                    (icmp_uuid.cc, icmp_uuid.h)               *)
(* of the status object absl::Key of absl/container (key.cc), and of      *)
(* DirectoryContent (absl/fs/directory.h), Singleton (base/singleton.h),   *)
(* FlagQueue (flags/flag_queue.h) and EventMap (events/eventmap.h).        *)
(*                                                                         *)
(* A text is a sequence of units.  A unit is a plain character, one of the *)
(* two-character delimiters "|_" and "_|", or a whole UUID (36 characters  *)
(* that the code only ever compares and replaces as a whole).              *)
(*                                                                         *)
(* A string_view is modelled by the characters of the storage it points    *)
(* to.  IcmpText is constructed over a by-value parameter, so the text it  *)
(* reads afterwards is not tied to the argument of get_new_text: the text  *)
(* of a new IcmpText is any text of InitialTexts.                          *)
(*                                                                         *)
(* Specifications:                                                         *)
(*   Spec          the calls of one thread, each from entry to return;     *)
(*   SpecAssigned  the same, from properties whose public members have     *)
(*                 been assigned, with the wait for the guess as a state;  *)
(*   SpecCommits   IcmpText::fill_gap called by several threads;           *)
(*   SpecReads     IcmpProperties::visit by several threads while the      *)
(*                 status is read;                                         *)
(*   SpecRegistry  IcmpTextSet::get_new_text and getTextByID;              *)
(*   SpecMerge     visit, swap_text and fill_gap from properties of one    *)
(*                 gap type that are New or Guessed;                       *)
(*   SpecKey       a Key that is constructed, updated and asked its code;  *)
(*   SpecDirectory DirectoryContent objects constructed and asked is();    *)
(*   SpecVisits    visits with the wait for the guess, under fairness;     *)
(*   SpecOperate   IcmpText::operate_impl;                                 *)
(*   SpecInserter  IcmpUUID::find_inserter_pos on texts of characters;     *)
(*   SpecSingleton Singleton::get by several threads, and constructions;   *)
(*   SpecFlagQueue FlagQueue::push and pop;                                *)
(*   SpecEventMap  EventMap::ref and emit;                                 *)
(*   SpecKeyCopy   a Key and a second Key copied, moved or assigned from   *)
(*                 it.                                                     *)
(***************************************************************************)
EXTENDS Integers, Sequences, FiniteSets, TLC

(***************************************************************************)
(* Bounds of the model.                                                    *)
(***************************************************************************)
MaxTexts == 1
MaxProps == 2
MaxThreads == 2
MaxReads == 3
MaxDocs == 3

(***************************************************************************)
(* enum IcmpProperties::Status and enum IcmpGapType.                       *)
(***************************************************************************)
Status == {"New", "Guessed", "MergedMyGap", "FilledGapInText"}

IcmpGapType == {"None", "Single", "Merge", "MergeAll"}

\* absl::UUID::generate(): the n-th identifier the process generates.
generate(n) == "u" \o ToString(n)

\* The texts an IcmpText can hold after IcmpTextSet::get_new_text.
InitialTexts == { <<"Hello ", "|_", "X", "_|", "!">>,
                  <<"|_", "X", "_|", "|_", "X", "_|">> }

\* The candidate texts the guesser may answer with; <<>> is the empty answer.
Candidates == { <<>>, <<"world">> }

\* The replacement texts a caller hands to IcmpText::fill_gap.
GapTexts == { <<"world">> }

\* The substrings a caller hands to IcmpStringView::replace.
Placeholders == { <<"X">> }

(***************************************************************************)
(* absl::StrReplaceAll with one substitution {old, new}: scans s from the  *)
(* left, replaces every non-overlapping occurrence of old by new and does  *)
(* not rescan what it inserted.  An empty old string is ignored.           *)
(***************************************************************************)
MatchesAt(s, old, i) ==
    /\ i + Len(old) - 1 <= Len(s)
    /\ \A k \in 1..Len(old) : s[i + k - 1] = old[k]

RECURSIVE StrReplaceFrom(_, _, _, _)
StrReplaceFrom(s, old, new, i) ==
    IF i > Len(s) THEN <<>>
    ELSE IF MatchesAt(s, old, i)
         THEN new \o StrReplaceFrom(s, old, new, i + Len(old))
         ELSE <<s[i]>> \o StrReplaceFrom(s, old, new, i + 1)

StrReplaceAll(s, old, new) ==
    IF old = <<>> THEN s ELSE StrReplaceFrom(s, old, new, 1)

(***************************************************************************)
(* absl::Key.  enum KeyStatusCode: the canonical codes kOk..kUnauthenticated*)
(* and the codes of this library kChanged..kValueForKeyUnavailable.        *)
(***************************************************************************)
kOk == 0

kUnknown == 2

kInvalidArgument == 3

kNotFound == 5

kInternal == 13

kUnauthenticated == 16

kChanged == 17

kValueForKeyUnavailable == 20

StatusCodes == kOk..kValueForKeyUnavailable

Messages == {"", "m"}

(***************************************************************************)
(* Key::rep_ is one word: an inlined rep, (code << 2) + 1 with bit 1 set   *)
(* in a moved-from Key, or the address of a KeyStatusRep on the heap with  *)
(* its code and message.  A rep is modelled as the word for an inlined rep *)
(* (an odd number) and as the word 0 with the KeyStatusRep it points to    *)
(* otherwise; two heap reps of equal content are equal, as operator== of   *)
(* Key has them.                                                           *)
(***************************************************************************)
CodeToInlinedRep(code) == code * 4 + 1

InlinedRepToCode(bits) == bits \div 4

IsInlined(rep) == rep.bits % 2 = 1

IsMovedFrom(rep) == (rep.bits \div 2) % 2 = 1

InlinedRep(bits) == [bits |-> bits, heap |-> <<>>]

PointerToRep(r) == [bits |-> 0, heap |-> <<r>>]

RepToPointer(rep) == rep.heap[1]

MovedFromRep == InlinedRep(CodeToInlinedRep(kInternal) + 2)

\* Key::Key(code, msg), and Key::Key(code) as the case of an empty msg.
Key_rep(code, msg) ==
    IF code # kOk /\ msg # ""
    THEN PointerToRep([code |-> code, message |-> msg])
    ELSE InlinedRep(CodeToInlinedRep(code))

\* A Key object: rep_ and the two value properties with their defaults.
NewKey(code, msg) ==
    [rep               |-> Key_rep(code, msg),
     status_value      |-> kValueForKeyUnavailable,
     status_value_pair |-> kInvalidArgument]

ok(rep) == rep = InlinedRep(CodeToInlinedRep(kOk))

raw_code(rep) ==
    IF IsInlined(rep) THEN InlinedRepToCode(rep.bits)
    ELSE RepToPointer(rep).code

MapToLocalCode(value) ==
    IF value \in kOk..kUnauthenticated THEN value ELSE kUnknown

code(rep) == MapToLocalCode(raw_code(rep))

\* Key::operator=(const Key&) and Key::operator=(Key&&): rep_ after the
\* assignment of a Key with rep x, and the rep of x after it was moved from.
assign(rep, x) == IF x # rep THEN x ELSE rep

moved(rep, x) == IF x # rep THEN MovedFromRep ELSE x

\* Key::Update: rep_ after Update(new_status); overwritten is the
\* assignment without the test of ok() that Update is not.
overwritten(rep, new_status) == assign(rep, new_status)

Update(rep, new_status) ==
    IF ok(rep) THEN assign(rep, new_status) ELSE rep

VARIABLES
    texts,      \* IcmpTextSet: the vector of IcmpText objects
    props,      \* every IcmpProperties object, in order of creation
    nextUuid,   \* number of identifiers generated so far
    last,       \* the last operation, its arguments and its result
    left,       \* per property: the statuses it has held and left
    commits,    \* per property: successful commits reported (saturates at 2)
    calls,      \* per thread: the call it is inside and the locals of the call
    seen,       \* per property: the statuses successive reads have returned
    overall_status, \* a Key object: rep_ and its value properties
    keylog,     \* what was done with it: its first rep_, the statuses
                \* passed to Update, the last argument after the call and
                \* the last result of code()
    other_status, \* a second Key, made from or assigned the first
    dircontent, \* DirectoryContent objects and the last answer of is()
    icmp_uuid,  \* an IcmpUUID and the last result of find_inserter_end
    singleton,  \* Singleton<T>: ms_instance, the instances and the callers
    flagqueue,  \* a FlagQueue, what was pushed and what was popped
    eventmap    \* EventMap: eventconn and what the last emit ran

vars == <<texts, props, nextUuid, last, left, commits, calls, seen,
         overall_status, keylog, other_status, dircontent, icmp_uuid,
         singleton, flagqueue, eventmap>>

\* A thread that is inside no call.
Idle == [pc |-> "idle", doc |-> 0, prop |-> 0, key |-> "", repl |-> <<>>,
         s |-> <<>>]

\* No operation of the texts and properties touches a Key.
NoKey == UNCHANGED <<overall_status, keylog>>

\* The objects of the other libraries, before anything is done with them,
\* and left as they are.
None == <<>>

ApartInit ==
    /\ other_status = None
    /\ dircontent = None
    /\ icmp_uuid = None
    /\ singleton = None
    /\ flagqueue = None
    /\ eventmap = None

Apart ==
    UNCHANGED <<other_status, dircontent, icmp_uuid, singleton, flagqueue,
                eventmap>>

\* A Key that nothing has been done with.
Constructed_Key(k) ==
    /\ overall_status = k
    /\ keylog = [initial |-> k.rep, passed |-> <<>>, arg |-> <<>>,
                 read |-> <<>>]

\* A call that runs from its first line to its return with no other thread
\* in between leaves the threads and the reads as they are.
Sequential == UNCHANGED <<calls, seen>> /\ NoKey /\ Apart

\* The record of an operation that is not a commit.
Did(op, d, p, trail) ==
    [op |-> op, doc |-> d, prop |-> p, key |-> "", repl |-> <<>>,
     ret |-> TRUE, trail |-> trail]

\* The record of a commit: IcmpText::fill_gap with key and replacement.
DidCommit(d, p, key, repl, ret, trail) ==
    [op |-> "fill_gap", doc |-> d, prop |-> p, key |-> key, repl |-> repl,
     ret |-> ret, trail |-> trail]

Init ==
    /\ texts = <<>>
    /\ props = <<>>
    /\ nextUuid = 0
    /\ last = Did("none", 0, 0, <<>>)
    /\ left = <<>>
    /\ commits = <<>>
    /\ calls = <<Idle>>
    /\ seen = <<>>
    /\ Constructed_Key(NewKey(kOk, ""))
    /\ ApartInit

Docs == 1..Len(texts)
Props == 1..Len(props)

\* Every identifier generated so far.
Uuids == { generate(n) : n \in 1..nextUuid }

(***************************************************************************)
(* UUID::UUID(): a string_view of generate().c_str(), the buffer of a      *)
(* temporary that is destroyed when the constructor returns.  What the     *)
(* view shows afterwards is the newly generated identifier or what the     *)
(* buffer holds next: an identifier generated before for an object of the  *)
(* same kind (`earlier`).                                                  *)
(***************************************************************************)
Range(v) == { v[i] : i \in 1..Len(v) }

new_UUID(earlier, fresh) == {fresh} \cup earlier

(***************************************************************************)
(* IcmpTextSet::get_new_text: a new IcmpText over the text, with its       *)
(* own_id, no gaps and an empty property queue, pushed onto the set.       *)
(***************************************************************************)
NewIcmpText(text, id) ==
    [text |-> text, own_id |-> id, m_gaps |-> <<>>, queue |-> <<>>]

\* The own_id of every text of the set.
OwnIds == { texts[d].own_id : d \in Docs }

get_new_text_within(n) ==
    /\ Len(texts) < n
    /\ \E text \in InitialTexts :
         \E id \in new_UUID(OwnIds, generate(nextUuid + 1)) :
            texts' = Append(texts, NewIcmpText(text, id))
    /\ last' = Did("get_new_text", Len(texts) + 1, 0, <<>>)
    /\ nextUuid' = nextUuid + 1
    /\ UNCHANGED <<props, left, commits>>
    /\ Sequential

get_new_text == get_new_text_within(MaxTexts)

(***************************************************************************)
(* IcmpTextSet::getTextByID: the first text of the set whose own_id equals  *)
(* textid; 0 stands for nullptr.                                           *)
(***************************************************************************)
FirstIn(S) == IF S = {} THEN 0 ELSE CHOOSE i \in S : \A j \in S : i <= j

getTextByID(textid) ==
    FirstIn({ d \in Docs : texts[d].own_id = textid })

(***************************************************************************)
(* IcmpUUID::IcmpUUID(template_text, other): the identifier is `other`, or *)
(* a newly generated one when `other` is empty; inserter_text and          *)
(* replacement_text both start as template_text.                           *)
(***************************************************************************)
NewIcmpUUID(template_text, other, fresh) ==
    [uuid              |-> IF other = "" THEN fresh ELSE other,
     inserter_text     |-> template_text,
     replacement_text  |-> template_text,
     m_last_instertion |-> ""]

(***************************************************************************)
(* IcmpProperties::IcmpProperties(textid, gapid): text_id copies textid;   *)
(* gap_id is IcmpUUID(gapid.data()): gapid becomes the template text of    *)
(* the IcmpUUID and, `other` being empty, the identifier of the IcmpUUID   *)
(* is newly generated.                                                     *)
(***************************************************************************)
NewIcmpProperties(textid, gapid, fresh) ==
    [status         |-> "New",
     text_id        |-> textid,
     gap_id         |-> NewIcmpUUID(<<gapid>>, "", fresh),
     gap_text       |-> <<>>,
     gap_type       |-> "Single",
     parentText     |-> "null",
     parentProperty |-> "null"]

\* The statuses of a trail that were left (followed by a different one).
LeftIn(trail) ==
    { trail[i] : i \in { k \in 1..(Len(trail) - 1) : trail[k] # trail[k + 1] } }

\* std::vector::push_back as m_gaps.push_back( gapid ) uses it, and the
\* insertion at the front that it is not.
push_front(v, x) == <<x>> \o v

push_back(v, x) == Append(v, x)

(***************************************************************************)
(* IcmpText::get_new_properties: generates gapid, builds the property from *)
(* (own_id, gapid), pushes the property on the context queue and gapid on  *)
(* m_gaps.  It has no parameter and no failing path.                       *)
(***************************************************************************)
get_new_properties(d) ==
    /\ Len(props) < MaxProps
    /\ \E gapid \in new_UUID(Range(texts[d].m_gaps),
                           generate(nextUuid + 1)) :
         LET property == NewIcmpProperties(texts[d].own_id, gapid,
                                           generate(nextUuid + 2))
             p        == Len(props) + 1
         IN  /\ props' = Append(props, property)
             /\ texts' = [texts EXCEPT ![d].queue = Append(@, p),
                                       ![d].m_gaps = push_back(@, gapid)]
             /\ last' = Did("get_new_properties", d, p, <<"New">>)
    /\ nextUuid' = nextUuid + 2
    /\ left' = Append(left, {})
    /\ commits' = Append(commits, 0)
    /\ Sequential

(***************************************************************************)
(* IcmpText::fill_gap(gapid, gaptext): replaces every occurrence of gapid  *)
(* in the text by gaptext and returns true, whatever was replaced.         *)
(***************************************************************************)
fill_gap_text(text, gapid, gaptext) == StrReplaceAll(text, <<gapid>>, gaptext)

fill_gap_ret(text, gapid, gaptext) == TRUE

\* The identifier get_new_properties pushed on m_gaps for property p.
RegisteredId(p) == props[p].gap_id.inserter_text[1]

\* The properties of text d that a commit with key gapid is a commit for.
GapsOf(d, gapid) ==
    { p \in Props : /\ props[p].text_id = texts[d].own_id
                    /\ gapid \in {props[p].gap_id.uuid, RegisteredId(p)} }

Saturate(n) == IF n < 2 THEN n + 1 ELSE n

Committed(P, ret) ==
    [p \in Props |-> IF p \in P /\ ret THEN Saturate(commits[p]) ELSE commits[p]]

fill_gap(d, gapid, gaptext) ==
    LET ret == fill_gap_ret(texts[d].text, gapid, gaptext)
    IN  /\ texts' = [texts EXCEPT ![d].text = fill_gap_text(@, gapid, gaptext)]
        /\ last' = DidCommit(d, 0, gapid, gaptext, ret, <<>>)
        /\ commits' = Committed(GapsOf(d, gapid), ret)
        /\ UNCHANGED <<props, nextUuid, left>>
        /\ Sequential

\* IcmpText::fill_gap(const IcmpProperties*): key *gap_id, text gap_text.
fill_gap_property(d, p) ==
    LET gapid == props[p].gap_id.uuid
        ret   == fill_gap_ret(texts[d].text, gapid, props[p].gap_text)
    IN  /\ texts' = [texts EXCEPT
                       ![d].text = fill_gap_text(@, gapid, props[p].gap_text)]
        /\ last' = DidCommit(d, p, gapid, props[p].gap_text, ret, <<>>)
        /\ commits' = Committed(GapsOf(d, gapid), ret)
        /\ UNCHANGED <<props, nextUuid, left>>
        /\ Sequential

(***************************************************************************)
(* IcmpProperties::fill_gap: commits gap_id->replacement_text under the    *)
(* key *gap_id into the text found by text_id; on true the status becomes  *)
(* FilledGapInText, from whatever status the property had.                 *)
(***************************************************************************)
IcmpProperties_fill_gap(p) ==
    LET d     == getTextByID(props[p].text_id)
        gapid == props[p].gap_id.uuid
        repl  == props[p].gap_id.replacement_text
        ret   == fill_gap_ret(texts[d].text, gapid, repl)
        trail == <<props[p].status,
                   IF ret THEN "FilledGapInText" ELSE props[p].status>>
    IN  /\ d # 0
        /\ texts' = [texts EXCEPT ![d].text = fill_gap_text(@, gapid, repl)]
        /\ props' = [props EXCEPT ![p].status = trail[2]]
        /\ last' = DidCommit(d, p, gapid, repl, ret, trail)
        /\ left' = [left EXCEPT ![p] = @ \cup LeftIn(trail)]
        /\ commits' = Committed({p}, ret)
        /\ UNCHANGED nextUuid
        /\ Sequential

(***************************************************************************)
(* IcmpConcludant::inform_guesser: the guess of the peer, possibly empty.  *)
(* IcmpStringView::replaceAll: the view takes the other text.              *)
(* IcmpText::erase_gapid: removes the identifier from m_gaps.              *)
(***************************************************************************)
inform_guesser == Candidates

replaceAll(view, other) == other

erase_gapid(gaps, gapid) == SelectSeq(gaps, LAMBDA g : g # gapid)

\* IcmpStringView::visited: parentProperty = property; its status = New.
visited(property) ==
    [property EXCEPT !.parentProperty = "self", !.status = "New"]

(***************************************************************************)
(* IcmpProperties::visit: the switch over status, then                     *)
(* gap_text.visited(this).  switched(p, sv) is the property after the      *)
(* switch, text_switched the text and gaps_switched the m_gaps of its      *)
(* document after the switch.                                              *)
(***************************************************************************)
switched(p, sv) ==
    LET q == props[p]
    IN  CASE q.status = "New" ->
               IF Len(sv) > 0
               THEN [q EXCEPT !.gap_text = replaceAll(@, sv),
                              !.status = "Guessed"]
               ELSE q
          [] q.status = "Guessed" ->
               IF q.gap_type \in {"Single", "Merge", "MergeAll"}
               THEN [q EXCEPT !.status = "MergedMyGap"]
               ELSE q
          [] q.status = "MergedMyGap" ->
               IF q.parentText # "null"
                  /\ fill_gap_ret(texts[getTextByID(q.text_id)].text,
                                  q.gap_id.uuid, q.gap_id.replacement_text)
               THEN [q EXCEPT !.status = "FilledGapInText"]
               ELSE q
          [] OTHER -> q

text_switched(p, d) ==
    LET q == props[p]
    IN  IF q.status = "MergedMyGap" /\ q.parentText # "null"
        THEN fill_gap_text(texts[d].text, q.gap_id.uuid,
                           q.gap_id.replacement_text)
        ELSE texts[d].text

gaps_switched(p, d) ==
    IF props[p].status = "FilledGapInText"
    THEN erase_gapid(texts[d].m_gaps, props[p].text_id)
    ELSE texts[d].m_gaps

visit_call(p) ==
    \E sv \in (IF props[p].status = "New" THEN inform_guesser ELSE {<<>>}) :
      LET d      == getTextByID(props[p].text_id)
          mid    == switched(p, sv)
          after  == visited(mid)
          trail  == <<props[p].status, mid.status, after.status>>
          commit == props[p].status = "MergedMyGap"
                    /\ props[p].parentText # "null"
      IN  /\ d # 0
          /\ props' = [props EXCEPT ![p] = after]
          /\ texts' = [texts EXCEPT ![d].text = text_switched(p, d),
                                    ![d].m_gaps = gaps_switched(p, d)]
          /\ last' = IF commit
                     THEN DidCommit(d, p, props[p].gap_id.uuid,
                                    props[p].gap_id.replacement_text,
                                    mid.status = "FilledGapInText", trail)
                     ELSE Did("visit", d, p, trail)
          /\ left' = [left EXCEPT ![p] = @ \cup LeftIn(trail)]
          /\ commits' = Committed(IF commit THEN {p} ELSE {},
                                  mid.status = "FilledGapInText")
          /\ UNCHANGED nextUuid

visit(p) == visit_call(p) /\ Sequential

(***************************************************************************)
(* IcmpStringView::replace on a text: every occurrence of substr becomes   *)
(* replacement.  This is how a caller writes an identifier into the text.  *)
(***************************************************************************)
\* The identifiers a caller can read off the properties.
GapIds == { props[p].gap_id.uuid : p \in Props }
            \cup { RegisteredId(p) : p \in Props }

replace(d, substr, replacement) ==
    /\ texts' = [texts EXCEPT ![d].text = StrReplaceAll(@, substr, replacement)]
    /\ last' = Did("replace", d, 0, <<>>)
    /\ UNCHANGED <<props, nextUuid, left, commits>>
    /\ Sequential

Next ==
    \/ get_new_text
    \/ \E d \in Docs : get_new_properties(d)
    \/ \E d \in Docs, gapid \in Uuids, gaptext \in GapTexts :
         fill_gap(d, gapid, gaptext)
    \/ \E d \in Docs, p \in Props : fill_gap_property(d, p)
    \/ \E p \in Props : IcmpProperties_fill_gap(p)
    \/ \E p \in Props : visit(p)
    \/ \E d \in Docs, substr \in Placeholders, g \in GapIds :
         replace(d, substr, <<g>>)

Spec == Init /\ [][Next]_vars

(***************************************************************************)
(* IcmpProperties::status, gap_type and gap_text.parentText are public     *)
(* data members without a setter: the gap type is configured, and          *)
(* parentText is attached, by assignment.  InitAssigned is a text with     *)
(* MaxProps registered properties, one of which has had its members        *)
(* assigned.                                                               *)
(***************************************************************************)
Assigned(property, s, g, pt) ==
    [property EXCEPT !.status = s, !.gap_type = g, !.parentText = pt]

Constructed(p) ==
    NewIcmpProperties(generate(1), generate(2 * p), generate(2 * p + 1))

InitAssigned ==
    \E text \in InitialTexts, a \in 1..MaxProps :
    \E s \in Status, g \in IcmpGapType, pt \in {"null", "text"} :
        /\ texts = << [NewIcmpText(text, generate(1)) EXCEPT
                         !.m_gaps = [p \in 1..MaxProps |-> generate(2 * p)],
                         !.queue = [p \in 1..MaxProps |-> p]] >>
        /\ props = [p \in 1..MaxProps |->
                      IF p = a THEN Assigned(Constructed(p), s, g, pt)
                               ELSE Constructed(p)]
        /\ nextUuid = 2 * MaxProps + 1
        /\ last = Did("assign", 1, a, <<s>>)
        /\ left = [p \in 1..MaxProps |-> {}]
        /\ commits = [p \in 1..MaxProps |-> 0]
        /\ calls = <<Idle>>
        /\ seen = <<>>
        /\ Constructed_Key(NewKey(kOk, ""))
        /\ ApartInit

(***************************************************************************)
(* IcmpProperties::visit in two steps of the calling thread: the call of   *)
(* inform_guesser from case New, which returns when the guess is there,    *)
(* and the rest of visit().  The thread is inside visit() in between.      *)
(***************************************************************************)
Awaiting(p) == calls[1].pc = "inform_guesser" /\ calls[1].prop = p

visit_request(p) ==
    /\ calls[1] = Idle
    /\ props[p].status = "New"
    /\ calls' = <<[Idle EXCEPT !.pc = "inform_guesser", !.prop = p]>>
    /\ UNCHANGED <<texts, props, nextUuid, last, left, commits, seen>>
    /\ NoKey
    /\ Apart

visit_answer(p) ==
    /\ Awaiting(p)
    /\ visit_call(p)
    /\ calls' = <<Idle>>
    /\ UNCHANGED seen
    /\ NoKey
    /\ Apart

\* visit() from a status other than New: no call of the guesser.
visit_switch(p) ==
    /\ calls[1] = Idle
    /\ props[p].status # "New"
    /\ visit(p)

NextAssigned ==
    \/ \E p \in Props : visit_request(p)
    \/ \E p \in Props : visit_answer(p)
    \/ \E p \in Props : visit_switch(p)
    \/ \E p \in Props : calls[1] = Idle /\ IcmpProperties_fill_gap(p)

SpecAssigned == InitAssigned /\ [][NextAssigned]_vars

(***************************************************************************)
(* Vocabulary of the claims.  Created, Guessed, Merged and Filled are the  *)
(* statuses New, Guessed, MergedMyGap and FilledGapInText; the enum has no *)
(* Failed.  open_gaps() of a text is its m_gaps.  A commit is a call of    *)
(* IcmpText::fill_gap; it succeeds when it returns true.                   *)
(***************************************************************************)
Successor(s) ==
    CASE s = "New"         -> "Guessed"
      [] s = "Guessed"     -> "MergedMyGap"
      [] s = "MergedMyGap" -> "FilledGapInText"
      [] OTHER             -> "none"

Terminal == {"FilledGapInText", "Failed"}

\* The marker of gap u: its identifier between the two delimiters.
Marker(u) == <<"|_", u, "_|">>

MarkerCount(text, u) ==
    Cardinality({ i \in 1..Len(text) : MatchesAt(text, Marker(u), i) })

Occurrences(text, u) == Cardinality({ i \in 1..Len(text) : text[i] = u })

IsOpen(d, u) == \E i \in 1..Len(texts[d].m_gaps) : texts[d].m_gaps[i] = u

\* The properties registered in text d.
PropsOf(d) == { p \in Props : props[p].text_id = texts[d].own_id }

\* The step is a commit into text d under key u with text repl.
CommitStep(d, u, repl) ==
    /\ last'.op = "fill_gap"
    /\ last'.doc = d
    /\ last'.key = u
    /\ last'.repl = repl

\* C1: every change of a gap's status goes to the next status of the chain
\* New -> Guessed -> MergedMyGap -> FilledGapInText or to Failed; no change
\* skips a status or goes back.
C1_NoTransitionSkipsAState ==
    \A i \in 1..(Len(last.trail) - 1) :
        \/ last.trail[i + 1] = last.trail[i]
        \/ last.trail[i + 1] = Successor(last.trail[i])
        \/ last.trail[i + 1] = "Failed"

\* C2: a gap never holds again a status it has held and left.
C2_StatusNeverRevisited ==
    \A p \in Props : props[p].status \notin left[p]

\* C3: a gap that is FilledGapInText (or Failed) keeps that status in every
\* later step.
C3_FilledAndFailedAreTerminal ==
    [][\A p \in Props : props[p].status \in Terminal
                          => props'[p].status = props[p].status]_vars

\* C4: every identifier in m_gaps has exactly one marker in the text of its
\* document.
C4_OpenGapHasExactlyOneMarker ==
    \A d \in Docs : \A i \in 1..Len(texts[d].m_gaps) :
        MarkerCount(texts[d].text, texts[d].m_gaps[i]) = 1

\* C5: a successful commit for a gap whose marker is in the text replaces
\* the marker, delimiters included, by the replacement text and changes
\* nothing else: "Hello |_A_|!" with "world" for A becomes "Hello world!".
C5_CommitReplacesMarkerSpan ==
    [][\A d \in Docs, u \in Uuids, repl \in GapTexts :
         (CommitStep(d, u, repl) /\ last'.ret
            /\ MarkerCount(texts[d].text, u) = 1)
         => texts'[d].text = StrReplaceAll(texts[d].text, Marker(u), repl)]_vars

\* C6: no gap is committed successfully more than once.
C6_CommitSucceedsAtMostOnce ==
    \A p \in Props : commits[p] <= 1

\* C7: a commit fails when its gap identifier is not open in the document
\* (UnknownGap) and when the marker of the gap is not in the text
\* (MarkerNotFound).
C7_CommitFailsOnUnknownGapOrMissingMarker ==
    [][\A d \in Docs :
         (last'.op = "fill_gap" /\ last'.doc = d
            /\ (~IsOpen(d, last'.key)
                  \/ MarkerCount(texts[d].text, last'.key) = 0))
         => ~last'.ret]_vars

\* C8: a commit that reports success has replaced the gap's identifier in
\* the text: the identifier was in the text before and is gone after.
C8_SuccessMeansReplaced ==
    [][\A d \in Docs :
         (last'.op = "fill_gap" /\ last'.doc = d /\ last'.ret)
         => /\ Occurrences(texts[d].text, last'.key) > 0
            /\ Occurrences(texts'[d].text, last'.key) = 0]_vars

\* C9: a successful commit for a gap removes the gap's own identifier from
\* m_gaps and leaves the other identifiers in their order.
C9_CommitRemovesOwnGapOnly ==
    [][\A d \in Docs :
         (last'.op = "fill_gap" /\ last'.doc = d /\ last'.ret)
         => texts'[d].m_gaps =
              SelectSeq(texts[d].m_gaps,
                        LAMBDA g : \A p \in GapsOf(d, last'.key) :
                                       g # RegisteredId(p))]_vars

\* C10: m_gaps of a document is empty exactly when every gap registered in
\* the document is FilledGapInText or Failed.
C10_NoOpenGapsIffAllTerminal ==
    \A d \in Docs :
        (texts[d].m_gaps = <<>>)
          <=> (\A p \in PropsOf(d) : props[p].status \in Terminal)

\* The identifiers registered in text d, in the order of their registration.
Registered(d) ==
    [i \in 1..Len(texts[d].queue) |-> RegisteredId(texts[d].queue[i])]

\* C11: m_gaps of a document lists its open identifiers in the order in
\* which get_new_properties registered them, whatever registrations and
\* commits have happened.
C11_OpenGapsInRegistrationOrder ==
    \A d \in Docs :
        texts[d].m_gaps = SelectSeq(Registered(d), LAMBDA g : IsOpen(d, g))

\* Two gaps are registered in one document and a commit has been made.
C11_Witness ==
    /\ last.op = "fill_gap"
    /\ last.ret
    /\ Len(texts[last.doc].m_gaps) >= 2

\* C12: no identifier is registered twice in one document: a registration
\* of an identifier that the document has already registered fails.
C12_NoIdentifierRegisteredTwice ==
    \A d \in Docs : \A i, j \in 1..Len(texts[d].m_gaps) :
        texts[d].m_gaps[i] = texts[d].m_gaps[j] => i = j

\* The step is a visit() of property p that found the status New and got an
\* empty text from the guesser.
EmptyGuessStep(p) ==
    /\ last'.op = "visit"
    /\ last'.prop = p
    /\ props[p].status = "New"
    /\ last'.trail[2] = "New"

\* C13: when the guesser answers a New gap with an empty text, the gap
\* becomes Failed and the text of its document stays as it was.
C13_EmptyGuessFailsTheGap ==
    [][\A p \in Props :
         EmptyGuessStep(p)
         => /\ props'[p].status = "Failed"
            /\ \A d \in Docs : texts'[d].text = texts[d].text]_vars

\* The step is the commit that visit() makes for property p from the status
\* MergedMyGap, with an identifier that is not open in document d or whose
\* marker is not in the text of d.
FailingCommitStep(d, p) ==
    /\ last'.op = "fill_gap"
    /\ last'.doc = d
    /\ last'.prop = p
    /\ Len(last'.trail) = 3
    /\ last'.trail[1] = "MergedMyGap"
    /\ \/ ~IsOpen(d, last'.key)
       \/ MarkerCount(texts[d].text, last'.key) = 0

\* C14: when the commit of a gap in MergedMyGap meets an identifier that is
\* not open or a marker that is not in the text, the gap becomes Failed.
C14_FailedCommitFailsTheGap ==
    [][\A d \in Docs, p \in Props :
         FailingCommitStep(d, p)
         => /\ last'.trail[2] = "Failed"
            /\ props'[p].status = "Failed"]_vars

\* C15: the switch of visit() takes a gap that is Guessed to MergedMyGap,
\* whatever its gap_type is.
C15_GuessedProceedsToMerged ==
    (last.op = "visit" /\ Len(last.trail) = 3 /\ last.trail[1] = "Guessed")
        => last.trail[2] = "MergedMyGap"

\* A step that the engine can take for gap q.
gap_step(q) ==
    \/ visit_request(q)
    \/ visit_switch(q)
    \/ calls[1] = Idle /\ IcmpProperties_fill_gap(q)

Threads == 1..MaxThreads

RECURSIVE Written(_)
Written(n) ==
    IF n = 0 THEN <<>>
    ELSE Written(n - 1) \o Marker(Constructed(n).gap_id.uuid)

InitThreads ==
    \E prefix \in { <<>>, <<"Hello ">> } :
        /\ texts = << [NewIcmpText(prefix \o Written(MaxProps), generate(1))
                         EXCEPT
                         !.m_gaps = [p \in 1..MaxProps |-> generate(2 * p)],
                         !.queue = [p \in 1..MaxProps |-> p]] >>
        /\ props = [p \in 1..MaxProps |-> Constructed(p)]
        /\ nextUuid = 2 * MaxProps + 1
        /\ last = Did("replace", 1, 0, <<>>)
        /\ left = [p \in 1..MaxProps |-> {}]
        /\ commits = [p \in 1..MaxProps |-> 0]
        /\ calls = [t \in Threads |-> Idle]
        /\ seen = [p \in 1..MaxProps |-> <<>>]
        /\ Constructed_Key(NewKey(kOk, ""))
        /\ ApartInit

(***************************************************************************)
(* IcmpText::fill_gap(gapid, gaptext) by thread t, in two steps:           *)
(*   fill_gap_copy  s = new std::string(this->substr()) and StrReplaceAll  *)
(*                  on s, the copy;                                        *)
(*   fill_gap_swap  swap of the text's view with the view of s, return     *)
(*                  true.                                                  *)
(***************************************************************************)
fill_gap_copy(t, d, gapid, gaptext) ==
    /\ calls[t] = Idle
    /\ calls' = [calls EXCEPT ![t] =
                    [pc |-> "fill_gap", doc |-> d, prop |-> 0, key |-> gapid,
                     repl |-> gaptext,
                     s |-> fill_gap_text(texts[d].text, gapid, gaptext)]]
    /\ UNCHANGED <<texts, props, nextUuid, last, left, commits, seen>>
    /\ NoKey
    /\ Apart

fill_gap_swap(t) ==
    LET c == calls[t]
    IN  /\ c.pc = "fill_gap"
        /\ texts' = [texts EXCEPT ![c.doc].text = c.s]
        /\ last' = DidCommit(c.doc, 0, c.key, c.repl, TRUE, <<>>)
        /\ commits' = Committed(GapsOf(c.doc, c.key), TRUE)
        /\ calls' = [calls EXCEPT ![t] = Idle]
        /\ UNCHANGED <<props, nextUuid, left, seen>>
        /\ NoKey
        /\ Apart

(***************************************************************************)
(* IcmpProperties::visit by thread t, in two steps: the switch, which      *)
(* writes status, and gap_text.visited(this), which writes it again.       *)
(***************************************************************************)
visit_switched(t, p) ==
    \E sv \in (IF props[p].status = "New" THEN inform_guesser ELSE {<<>>}) :
      LET d   == getTextByID(props[p].text_id)
          mid == switched(p, sv)
      IN  /\ calls[t] = Idle
          /\ d # 0
          /\ props' = [props EXCEPT ![p] = mid]
          /\ texts' = [texts EXCEPT ![d].text = text_switched(p, d),
                                    ![d].m_gaps = gaps_switched(p, d)]
          /\ calls' = [calls EXCEPT
                         ![t] = [Idle EXCEPT !.pc = "visit", !.prop = p]]
          /\ UNCHANGED <<nextUuid, last, left, commits, seen>>
          /\ NoKey
          /\ Apart

visit_visited(t) ==
    LET p == calls[t].prop
    IN  /\ calls[t].pc = "visit"
        /\ props' = [props EXCEPT ![p] = visited(@)]
        /\ calls' = [calls EXCEPT ![t] = Idle]
        /\ UNCHANGED <<texts, nextUuid, last, left, commits, seen>>
        /\ NoKey
        /\ Apart

\* A thread reads the public member status of property p.  A read is kept
\* when it differs from the read before it.
read_status(p) ==
    /\ Len(seen[p]) < MaxReads
    /\ IF seen[p] = <<>> THEN TRUE
       ELSE seen[p][Len(seen[p])] # props[p].status
    /\ seen' = [seen EXCEPT ![p] = Append(@, props[p].status)]
    /\ NoKey
    /\ Apart
    /\ UNCHANGED <<texts, props, nextUuid, last, left, commits, calls>>

\* The threads commit into the text.
NextCommits ==
    \/ \E t \in Threads, d \in Docs, p \in Props, gaptext \in GapTexts :
         fill_gap_copy(t, d, props[p].gap_id.uuid, gaptext)
    \/ \E t \in Threads : fill_gap_swap(t)

SpecCommits == InitThreads /\ [][NextCommits]_vars

\* The threads visit the properties while their status is read.
NextReads ==
    \/ \E t \in Threads, p \in Props : visit_switched(t, p)
    \/ \E t \in Threads : visit_visited(t)
    \/ \E p \in Props : read_status(p)

SpecReads == InitThreads /\ [][NextReads]_vars

\* No call is in progress on any thread.
Quiet == \A t \in Threads : calls[t] = Idle

\* C16: two commits on one text take effect one after the other: once the
\* commits have returned, the identifier of every gap that was committed
\* with success is gone from the text, as it is in either order of the two
\* commits.
C16_NoLostUpdate ==
    Quiet => \A d \in Docs : \A p \in PropsOf(d) :
                commits[p] > 0
                  => Occurrences(texts[d].text, props[p].gap_id.uuid) = 0

Rank(s) ==
    CASE s = "New"             -> 1
      [] s = "Guessed"         -> 2
      [] s = "MergedMyGap"     -> 3
      [] OTHER                 -> 4

\* C18: the statuses that successive reads of one gap return are in the
\* order New, Guessed, MergedMyGap, FilledGapInText (or Failed).
C18_ReadsSeeStatusesInOrder ==
    \A p \in DOMAIN seen : \A i, j \in 1..Len(seen[p]) :
        i < j => Rank(seen[p][i]) <= Rank(seen[p][j])

(***************************************************************************)
(* IcmpTextSet as a registry: get_new_text adds a text, getTextByID looks  *)
(* one up by identifier and changes nothing.  The set has no operation     *)
(* that removes a text.                                                    *)
(***************************************************************************)
getTextByID_call(textid) ==
    /\ last' = [Did("getTextByID", getTextByID(textid), 0, <<>>)
                  EXCEPT !.key = textid]
    /\ UNCHANGED <<texts, props, nextUuid, left, commits>>
    /\ Sequential

\* The identifiers a caller looks up: every generated one and one that no
\* text was given.
LookupIds == Uuids \cup {generate(nextUuid + 1)}

NextRegistry ==
    \/ get_new_text_within(MaxDocs)
    \/ \E textid \in LookupIds : getTextByID_call(textid)

SpecRegistry == Init /\ [][NextRegistry]_vars

\* C20: getTextByID returns the text for the own_id of every text that
\* get_new_text has added, and nullptr for every other identifier.
C20_LookupReturnsTheDocument ==
    last.op = "getTextByID"
      => /\ \A d \in Docs : texts[d].own_id = last.key => last.doc = d
         /\ last.key \notin OwnIds => last.doc = 0

(***************************************************************************)
(* Lookup of a property by identifier.  IcmpText::getPropertyByID walks    *)
(* the context queue of the text and returns the first property whose      *)
(* gap_id compares equal to propertyid; IcmpTextSet::getTextByPropertyID   *)
(* and IcmpTextSet::getPropertyByID walk the texts of the set and return   *)
(* the first text in which that lookup finds a property, and the property  *)
(* it finds.  0 stands for nullptr.                                        *)
(***************************************************************************)
IcmpText_getPropertyByID(d, propertyid) ==
    LET queue == texts[d].queue
        i     == FirstIn({ k \in 1..Len(queue) :
                             props[queue[k]].gap_id.uuid = propertyid })
    IN  IF i = 0 THEN 0 ELSE queue[i]

getTextByPropertyID(propertyid) ==
    FirstIn({ d \in Docs : IcmpText_getPropertyByID(d, propertyid) # 0 })

IcmpTextSet_getPropertyByID(propertyid) ==
    LET d == getTextByPropertyID(propertyid)
    IN  IF d = 0 THEN 0 ELSE IcmpText_getPropertyByID(d, propertyid)

\* C23: for every gap that get_new_properties registered in a text, the
\* lookups with the identifier recorded for the gap return the property of
\* the gap (getPropertyByID of the text and of the set) and the text in
\* which it was registered (getTextByPropertyID).
C23_LookupByRecordedIdentifier ==
    \A d \in Docs : \A k \in 1..Len(texts[d].queue) :
        LET p == texts[d].queue[k]
        IN  /\ IcmpText_getPropertyByID(d, RegisteredId(p)) = p
            /\ IcmpTextSet_getPropertyByID(RegisteredId(p)) = p
            /\ getTextByPropertyID(RegisteredId(p)) = d

\* The candidate the guesser returned for property p, as case New of
\* visit() keeps it: gap_text; empty while there has been none.
Candidate(p) == props[p].gap_text

\* C24: under gap type Single, the text that a commit of a property writes
\* is exactly the candidate the guesser returned for that property.
C24_SingleCommitsTheCandidate ==
    ( /\ last.op = "fill_gap"
      /\ last.prop # 0
      /\ props[last.prop].gap_type = "Single"
      /\ Candidate(last.prop) # <<>> )
      => last.repl = Candidate(last.prop)

\* C27: a property carries an accepted replacement text, the
\* replacement_text of its gap_id, exactly when its status is
\* FilledGapInText.
C27_ReplacementTextOnlyWhenFilled ==
    \A p \in Props :
        props[p].gap_id.replacement_text # <<>>
            <=> props[p].status = "FilledGapInText"

(***************************************************************************)
(* Merging.  IcmpProperties::swap_text gives a property its text: gap_text *)
(* becomes a view of the text, with the property as parentProperty and a   *)
(* copy of the text that getTextByPropertyID finds for it as parentText.    *)
(* InitMerge is a text with MaxProps registered properties that all have   *)
(* the same gap type assigned and are New or Guessed; Guess(p) is the      *)
(* candidate of the p-th of them.                                          *)
(***************************************************************************)
Guess(p) == IF p = 1 THEN <<"red">> ELSE <<"car">>

swap_text(p, text) ==
    LET d == getTextByPropertyID(props[p].gap_id.uuid)
    IN  /\ calls[1] = Idle
        /\ d # 0
        /\ props' = [props EXCEPT ![p].gap_text = text,
                                  ![p].parentProperty = "self",
                                  ![p].parentText = "text"]
        /\ last' = Did("swap_text", d, p, <<props[p].status>>)
        /\ UNCHANGED <<texts, nextUuid, left, commits>>
        /\ Sequential

InitMerge ==
    \E text \in InitialTexts, g \in IcmpGapType :
    \E st \in [1..MaxProps -> {"New", "Guessed"}] :
        /\ texts = << [NewIcmpText(text, generate(1)) EXCEPT
                         !.m_gaps = [p \in 1..MaxProps |-> generate(2 * p)],
                         !.queue = [p \in 1..MaxProps |-> p]] >>
        /\ props = [p \in 1..MaxProps |->
                      Assigned(Constructed(p), st[p], g, "null")]
        /\ nextUuid = 2 * MaxProps + 1
        /\ last = Did("assign", 1, 0, <<>>)
        /\ left = [p \in 1..MaxProps |-> {}]
        /\ commits = [p \in 1..MaxProps |-> 0]
        /\ calls = <<Idle>>
        /\ seen = <<>>
        /\ Constructed_Key(NewKey(kOk, ""))
        /\ ApartInit

NextMerge ==
    \/ \E p \in Props : swap_text(p, Guess(p))
    \/ \E p \in Props : visit_request(p)
    \/ \E p \in Props : visit_answer(p)
    \/ \E p \in Props : visit_switch(p)
    \/ \E p \in Props : calls[1] = Idle /\ IcmpProperties_fill_gap(p)

SpecMerge == InitMerge /\ [][NextMerge]_vars

\* The Guessed properties of text d in the order of their registration, and
\* their candidates put together in that order with sep in between.
GuessedIn(d) ==
    SelectSeq(texts[d].queue, LAMBDA q : props[q].status = "Guessed")

RECURSIVE Concatenated(_, _)
Concatenated(ps, sep) ==
    IF ps = <<>> THEN <<>>
    ELSE IF Len(ps) = 1 THEN Candidate(ps[1])
    ELSE Candidate(ps[1]) \o sep \o Concatenated(Tail(ps), sep)

\* The step is a visit() of property p that starts in Guessed with gap
\* type g, every Guessed property of its text having a candidate.
MergeStep(p, g) ==
    /\ props[p].status = "Guessed"
    /\ props[p].gap_type = g
    /\ last'.op = "visit"
    /\ last'.prop = p
    /\ \A k \in 1..Len(GuessedIn(last'.doc)) :
          Candidate(GuessedIn(last'.doc)[k]) # <<>>

\* The texts a property holds that a merge could have written.
MergedTexts(q) == {q.gap_text, q.gap_id.replacement_text}

\* C25: under gap type Merge, the visit() that merges a Guessed property
\* whose text has several Guessed properties leaves as its merged text their
\* candidates in registration order with one space between neighbours
\* ("red" and "car" give "red car").
C25_MergeJoinsWithOneSpace ==
    [][\A p \in Props :
          ( /\ MergeStep(p, "Merge")
            /\ Len(GuessedIn(last'.doc)) >= 2 )
            => Concatenated(GuessedIn(last'.doc), <<" ">>)
                 \in MergedTexts(props'[p])]_vars

\* C26: under gap type MergeAll, the visit() that merges a Guessed property
\* leaves as its text the candidates of all properties of the document that
\* are Guessed at that moment, concatenated in registration order.
C26_MergeAllConcatenatesGuessed ==
    [][\A p \in Props :
          MergeStep(p, "MergeAll")
            => Concatenated(GuessedIn(last'.doc), <<>>)
                 \in MergedTexts(props'[p])]_vars

(***************************************************************************)
(* A Key on its own: constructed from a code and a message, updated with   *)
(* statuses by Update(const Key&) and Update(Key&&), and asked for its     *)
(* code.  The texts and properties take no part.                           *)
(***************************************************************************)
MaxUpdates == 3

UpdateCodes == {kOk, kNotFound, kInternal, kChanged}

\* The statuses passed to Update: constructed ones and a moved-from Key.
UpdateArgs ==
    { Key_rep(c, m) : c \in UpdateCodes, m \in Messages } \cup {MovedFromRep}

NoTexts == UNCHANGED <<texts, props, nextUuid, last, left, commits, calls, seen>>

InitKey ==
    /\ texts = <<>>
    /\ props = <<>>
    /\ nextUuid = 0
    /\ last = Did("none", 0, 0, <<>>)
    /\ left = <<>>
    /\ commits = <<>>
    /\ calls = <<Idle>>
    /\ seen = <<>>
    /\ \E c \in StatusCodes, m \in Messages : Constructed_Key(NewKey(c, m))
    /\ ApartInit

Update_copy(new_status) ==
    /\ Len(keylog.passed) < MaxUpdates
    /\ overall_status' = [overall_status EXCEPT !.rep = Update(@, new_status)]
    /\ keylog' = [keylog EXCEPT !.passed = Append(@, new_status),
                                !.arg = <<new_status>>]
    /\ NoTexts
    /\ Apart

Update_move(new_status) ==
    /\ Len(keylog.passed) < MaxUpdates
    /\ overall_status' = [overall_status EXCEPT !.rep = Update(@, new_status)]
    /\ keylog' = [keylog EXCEPT
                    !.passed = Append(@, new_status),
                    !.arg = <<IF ok(overall_status.rep) THEN moved(overall_status.rep, new_status)
                                             ELSE new_status>>]
    /\ NoTexts
    /\ Apart

code_call ==
    /\ keylog' = [keylog EXCEPT
                    !.read = <<[of |-> overall_status.rep, code |-> code(overall_status.rep)]>>]
    /\ UNCHANGED overall_status
    /\ NoTexts
    /\ Apart

NextKey ==
    \/ \E new_status \in UpdateArgs : Update_copy(new_status)
    \/ \E new_status \in UpdateArgs : Update_move(new_status)
    \/ code_call

SpecKey == InitKey /\ [][NextKey]_vars

\* The first status of a sequence whose code is not kOk, or OK if none is.
RECURSIVE FirstError(_)
FirstError(statuses) ==
    IF statuses = <<>> THEN Key_rep(kOk, "")
    ELSE IF raw_code(Head(statuses)) # kOk THEN Head(statuses)
    ELSE FirstError(Tail(statuses))

\* C28: Update replaces the status of the key only while the key is OK: the
\* key holds the first non-OK status among the one it started with and
\* those passed to Update in order, and OK if there is none.
C28_UpdateKeepsFirstError ==
    overall_status.rep = FirstError(<<keylog.initial>> \o keylog.passed)

\* An initially OK key that was passed two different errors holds the first.
C28_Witness ==
    /\ raw_code(keylog.initial) = kOk
    /\ Len(keylog.passed) >= 2
    /\ raw_code(keylog.passed[1]) # kOk
    /\ raw_code(keylog.passed[2]) # kOk
    /\ keylog.passed[2] # keylog.passed[1]
    /\ overall_status.rep = keylog.passed[1]

\* C30: code() of a Key that holds the status constructed with code c, for
\* c from kOk to kValueForKeyUnavailable, with or without a message, is c.
C30_CodeReturnsTheCode ==
    keylog.read # <<>>
      => \A c \in StatusCodes, m \in Messages :
            keylog.read[1].of = Key_rep(c, m) => keylog.read[1].code = c

(***************************************************************************)
(* absl::DirectoryContent: a CompressedTuple< int, File*, Directory*,      *)
(* Path* > and the path as a string.  The constructors set element 0 to 1  *)
(* for a Directory, 0 for a File and 2 for a Path; the copy constructor    *)
(* takes get_pos(), get_file() and get_directory() of the other content    *)
(* and a new Path of its pathstr().  A pointer is modelled by the name of  *)
(* the object it points to.                                                *)
(***************************************************************************)
Type_File == 1

Type_Directory == 2

Type_GenericPath == 3

Type == {Type_File, Type_Directory, Type_GenericPath}

MaxContents == 2

Paths == {"a", "b"}

DirectoryContent_Directory(dir) ==
    [pos |-> 1, file |-> "nullptr", directory |-> dir, path |-> "nullptr",
     str |-> dir]

DirectoryContent_File(file) ==
    [pos |-> 0, file |-> file, directory |-> "nullptr", path |-> "nullptr",
     str |-> file]

DirectoryContent_Path(path) ==
    [pos |-> 2, file |-> "nullptr", directory |-> "nullptr", path |-> path,
     str |-> path]

get_pos(dc) == dc.pos

DirectoryContent_copy(dc) ==
    [pos |-> get_pos(dc), file |-> dc.file, directory |-> dc.directory,
     path |-> dc.str, str |-> dc.str]

\* DirectoryContent::is: static_cast<int>(dct) == get_pos().
is(dc, dct) == dct = get_pos(dc)

OnlyDirContent ==
    UNCHANGED <<texts, props, nextUuid, last, left, commits, calls, seen,
                overall_status, keylog, other_status, icmp_uuid, singleton,
                flagqueue, eventmap>>

InitDirectory ==
    /\ texts = <<>>
    /\ props = <<>>
    /\ nextUuid = 0
    /\ last = Did("none", 0, 0, <<>>)
    /\ left = <<>>
    /\ commits = <<>>
    /\ calls = <<Idle>>
    /\ seen = <<>>
    /\ Constructed_Key(NewKey(kOk, ""))
    /\ other_status = None
    /\ icmp_uuid = None
    /\ singleton = None
    /\ flagqueue = None
    /\ eventmap = None
    /\ dircontent = [list |-> <<>>, made_from |-> <<>>, asked |-> <<>>]

\* A content is constructed: dc is the object and kind what it was made from.
constructed(dc, kind) ==
    /\ Len(dircontent.list) < MaxContents
    /\ dircontent' = [dircontent EXCEPT !.list = Append(@, dc),
                                        !.made_from = Append(@, kind)]
    /\ OnlyDirContent

from_Directory(dir) == constructed(DirectoryContent_Directory(dir), "Directory")

from_File(file) == constructed(DirectoryContent_File(file), "File")

from_Path(path) == constructed(DirectoryContent_Path(path), "Path")

from_DirectoryContent(i) ==
    constructed(DirectoryContent_copy(dircontent.list[i]),
                dircontent.made_from[i])

is_call(i, dct) ==
    /\ dircontent' = [dircontent EXCEPT
                        !.asked = <<[of |-> i, dct |-> dct,
                                     ret |-> is(dircontent.list[i], dct)]>>]
    /\ OnlyDirContent

NextDirectory ==
    \/ \E dir \in Paths : from_Directory(dir)
    \/ \E file \in Paths : from_File(file)
    \/ \E path \in Paths : from_Path(path)
    \/ \E i \in 1..Len(dircontent.list) : from_DirectoryContent(i)
    \/ \E i \in 1..Len(dircontent.list), dct \in Type : is_call(i, dct)

SpecDirectory == InitDirectory /\ [][NextDirectory]_vars

\* The Type that stands for what a content was constructed from.
TypeOf(kind) ==
    CASE kind = "File"      -> Type_File
      [] kind = "Directory" -> Type_Directory
      [] kind = "Path"      -> Type_GenericPath

\* C31: is(t) of a DirectoryContent is true exactly for the Type of what the
\* content was constructed from (File, Directory or generic Path).
C31_IsTellsTheKind ==
    dircontent.asked # <<>>
      => LET a == dircontent.asked[1]
         IN  a.ret <=> (a.dct = TypeOf(dircontent.made_from[a.of]))

(***************************************************************************)
(* Texts and properties that are registered, visited and committed by one  *)
(* thread, where every registered property is visited again and again and  *)
(* the guesser answers every call of inform_guesser.                       *)
(***************************************************************************)
NextVisits ==
    \/ calls[1] = Idle /\ get_new_text
    \/ \E d \in Docs : calls[1] = Idle /\ get_new_properties(d)
    \/ \E p \in Props : visit_request(p)
    \/ \E p \in Props : visit_answer(p)
    \/ \E p \in Props : visit_switch(p)
    \/ \E p \in Props : calls[1] = Idle /\ IcmpProperties_fill_gap(p)

VisitedAgain ==
    \A p \in 1..MaxProps :
        /\ SF_vars(p \in Props /\ (visit_request(p) \/ visit_switch(p)))
        /\ WF_vars(p \in Props /\ visit_answer(p))

SpecVisits == Init /\ [][NextVisits]_vars /\ VisitedAgain

\* C32: every registered property reaches FilledGapInText (the enum has no
\* Failed) when it is visited again and again and the guesser answers each
\* time.
C32_EveryGapIsSettled ==
    \A p \in 1..MaxProps :
        (p \in Props) ~> (p \in Props /\ props[p].status = "FilledGapInText")

(***************************************************************************)
(* IcmpText::operate_impl: operated starts as m_gaps.size() and the loop   *)
(* runs while it is not 0.  The reverse iterator is never advanced and     *)
(* property is never assigned (the assignment is a TODO), so each turn of  *)
(* the loop calls fill_gap(property) with property == nullptr, which reads *)
(* property->gap_id and property->gap_text through the null pointer.  That *)
(* read either ends the program, or yields some identifier and text, with  *)
(* which fill_gap returns true, so that the loop counts down and returns   *)
(* true.  With no gap registered the loop is not entered.                  *)
(***************************************************************************)
RECURSIVE fill_gap_times(_, _, _, _)
fill_gap_times(n, text, gapid, gaptext) ==
    IF n = 0 THEN text
    ELSE fill_gap_times(n - 1, fill_gap_text(text, gapid, gaptext),
                        gapid, gaptext)

operate_impl_none(d) ==
    /\ calls[1] = Idle
    /\ Len(texts[d].m_gaps) = 0
    /\ last' = [Did("operate_impl", d, 0, <<>>) EXCEPT !.ret = FALSE]
    /\ UNCHANGED <<texts, props, nextUuid, left, commits>>
    /\ Sequential

operate_impl_crash(d) ==
    /\ calls[1] = Idle
    /\ Len(texts[d].m_gaps) > 0
    /\ calls' = <<[Idle EXCEPT !.pc = "crashed", !.doc = d]>>
    /\ last' = [Did("operate_impl", d, 0, <<>>) EXCEPT !.ret = FALSE]
    /\ UNCHANGED <<texts, props, nextUuid, left, commits, seen>>
    /\ NoKey
    /\ Apart

operate_impl_read(d, gapid, gaptext) ==
    LET n == Len(texts[d].m_gaps)
    IN  /\ calls[1] = Idle
        /\ n > 0
        /\ texts' = [texts EXCEPT
                       ![d].text = fill_gap_times(n, @, gapid, gaptext)]
        /\ last' = [Did("operate_impl", d, 0, [i \in 1..n |-> gapid])
                      EXCEPT !.ret = n > 0]
        /\ commits' = [p \in Props |->
                         IF p \in GapsOf(d, gapid)
                         THEN (IF commits[p] + n > 2 THEN 2
                                                    ELSE commits[p] + n)
                         ELSE commits[p]]
        /\ UNCHANGED <<props, nextUuid, left>>
        /\ Sequential

operate_impl(d) ==
    \/ operate_impl_none(d)
    \/ operate_impl_crash(d)
    \/ \E gapid \in Uuids, gaptext \in GapTexts :
          operate_impl_read(d, gapid, gaptext)

NextOperate ==
    \/ calls[1] = Idle /\ get_new_text
    \/ \E d \in Docs : calls[1] = Idle /\ get_new_properties(d)
    \/ \E d \in Docs : operate_impl(d)

SpecOperate == Init /\ [][NextOperate]_vars

\* How often g is among the elements of the sequence v.
CountIn(v, g) == Cardinality({ i \in 1..Len(v) : v[i] = g })

\* C33: operate_impl returns for every number of registered gaps, has
\* attempted every identifier of m_gaps exactly once and no other, and
\* returns true exactly when an attempt filled (false with no gap).
C33_OperateAttemptsEachGapOnce ==
    last.op = "operate_impl"
      => /\ calls[1].pc # "crashed"
         /\ Len(last.trail) = Len(texts[last.doc].m_gaps)
         /\ \A g \in Range(texts[last.doc].m_gaps) :
               CountIn(last.trail, g) = CountIn(texts[last.doc].m_gaps, g)
         /\ last.ret <=> Len(last.trail) > 0

(***************************************************************************)
(* IcmpUUID::find_inserter_end on characters.  A text is a sequence of     *)
(* characters here; an identifier is UuidLength characters, as generate()  *)
(* writes them.  substr(s, pos, n) is std::string::substr with positions   *)
(* from 0; it throws std::out_of_range when pos > size().                  *)
(***************************************************************************)
UuidLength == 36

IdChars == {"a", "b"}

CharId(c) == [i \in 1..UuidLength |-> c]

CharIds == { CharId(c) : c \in IdChars }

Opening == <<"|", "_">>

Closing == <<"_", "|">>

\* Texts with the marker of an identifier: text before, the marker with
\* something inside after the identifier, and text after.
TemplateTexts ==
    { pre \o Opening \o id \o inner \o Closing \o post :
        pre \in {<<>>, <<"x">>},
        id \in CharIds,
        inner \in {<<>>, <<"y">>, Opening \o Closing},
        post \in {<<>>, <<"x">>, Closing} }

Min(a, b) == IF a < b THEN a ELSE b

substr(s, pos, n) == SubSeq(s, pos + 1, Min(pos + n, Len(s)))

\* One turn of the for loop at position p, from the locals in l.
inserter_turn(l, text, ins_id, p) ==
    LET pos == substr(text, p, 2)
    IN  IF p > Len(text) \/ (pos = Opening /\ p + 3 > Len(text))
        THEN [l EXCEPT !.thrown = TRUE]
        ELSE IF pos = Opening /\ substr(text, p + 3, Len(ins_id)) = ins_id
        THEN [l EXCEPT !.inserter_start = @ + 1, !.inserter_count = @ + 1,
                       !.pos_start = p + 2, !.found = TRUE]
        ELSE IF pos = Opening
        THEN [l EXCEPT !.inserter_start = @ + 1,
                       !.inserter_count = IF l.found THEN @ + 1 ELSE @]
        ELSE IF pos = Closing /\ l.inserter_start = 0 /\ l.found
        THEN [l EXCEPT !.pos_end = p, !.found = FALSE, !.broke = TRUE]
        ELSE IF pos = Closing /\ l.found
        THEN [l EXCEPT !.inserter_start = @ - 1]
        ELSE l

\* The for loop: p from 0 while p < size(), the size of the IcmpUUID's own
\* identifier, until the break or an exception.
RECURSIVE inserter_loop(_, _, _, _, _)
inserter_loop(l, text, ins_id, size, p) ==
    IF p >= size \/ l.broke \/ l.thrown THEN l
    ELSE inserter_loop(inserter_turn(l, text, ins_id, p), text, ins_id,
                       size, p + 1)

\* find_inserter_end: ((pos_start, pos_end), inserter_count), with ins_id
\* the identifier the search compares with.
find_inserter_end(text, ins_id, size) ==
    inserter_loop([inserter_start |-> 0, inserter_count |-> 0,
                   pos_start |-> 0, pos_end |-> 0, found |-> FALSE,
                   broke |-> FALSE, thrown |-> FALSE],
                  text, ins_id, size, 0)

(***************************************************************************)
(* The identifier of the search: uuid itself when it is empty, otherwise   *)
(* ins_id = UUID::generate(), a view of a string that is destroyed at once *)
(* (the parameter of the UUID constructor); what the comparison reads      *)
(* through it is the newly generated identifier or an earlier one.         *)
(***************************************************************************)
FreshId == [i \in 1..UuidLength |-> "f"]

ins_ids(uuid) == IF Len(uuid) = 0 THEN {uuid} ELSE new_UUID(CharIds, FreshId)

OnlyIcmpUUID ==
    UNCHANGED <<texts, props, nextUuid, last, left, commits, calls, seen,
                overall_status, keylog, other_status, dircontent, singleton,
                flagqueue, eventmap>>

\* IcmpUUID(template_text, other) with other an identifier.
InitInserter ==
    /\ texts = <<>>
    /\ props = <<>>
    /\ nextUuid = 0
    /\ last = Did("none", 0, 0, <<>>)
    /\ left = <<>>
    /\ commits = <<>>
    /\ calls = <<Idle>>
    /\ seen = <<>>
    /\ Constructed_Key(NewKey(kOk, ""))
    /\ other_status = None
    /\ dircontent = None
    /\ singleton = None
    /\ flagqueue = None
    /\ eventmap = None
    /\ \E template_text \in TemplateTexts, other \in CharIds :
          icmp_uuid = [uuid |-> other, inserter_text |-> template_text,
                       replacement_text |-> template_text, found |-> <<>>]

find_inserter_pos(uuid) ==
    /\ \E ins_id \in ins_ids(uuid) :
          LET l == find_inserter_end(icmp_uuid.replacement_text, ins_id,
                                     Len(icmp_uuid.uuid))
          IN  icmp_uuid' = [icmp_uuid EXCEPT
                              !.found = <<[uuid |-> uuid,
                                           thrown |-> l.thrown,
                                           first |-> l.pos_start,
                                           second |-> l.pos_end]>>]
    /\ OnlyIcmpUUID

NextInserter == \E uuid \in CharIds \cup {<<>>} : find_inserter_pos(uuid)

SpecInserter == InitInserter /\ [][NextInserter]_vars

\* The positions (from 0) at which the marker of identifier id opens in a
\* text, and the position of the closing that matches an opening, counting
\* the openings and closings in between.
MarkerOpenings(text, id) ==
    { p \in 0..(Len(text) - 1) : /\ substr(text, p, 2) = Opening
                                 /\ substr(text, p + 2, Len(id)) = id }

RECURSIVE MatchingClosing(_, _, _)
MatchingClosing(text, p, depth) ==
    IF p >= Len(text) THEN Len(text)
    ELSE IF substr(text, p, 2) = Opening
         THEN MatchingClosing(text, p + 2, depth + 1)
    ELSE IF substr(text, p, 2) = Closing
         THEN IF depth = 0 THEN p
              ELSE MatchingClosing(text, p + 2, depth - 1)
    ELSE MatchingClosing(text, p + 1, depth)

\* C34: for a text with the marker of the requested identifier,
\* find_inserter_pos returns the position just after the opening of the
\* marker and the position of its matching closing, nested pairs skipped,
\* with start <= end.
C34_InserterPosSpansTheMarker ==
    \A f \in Range(icmp_uuid.found) :
        \A p \in MarkerOpenings(icmp_uuid.replacement_text, f.uuid) :
            (Len(f.uuid) > 0
             /\ \A q \in MarkerOpenings(icmp_uuid.replacement_text, f.uuid) :
                   p <= q)
              => /\ ~f.thrown
                 /\ f.first = p + 2
                 /\ f.second = MatchingClosing(icmp_uuid.replacement_text,
                                               p + 2, 0)
                 /\ f.first <= f.second

(***************************************************************************)
(* Singleton<inheriting_t>.  Instances are numbered from 1; nullptr is 0.  *)
(* ms_instance is the static unique_ptr, alive the instances that are not  *)
(* destroyed, through_get those that get() created, returned the results   *)
(* of the calls of get() in the order of their return.  get() takes no     *)
(* lock, so its statements interleave between threads.                     *)
(***************************************************************************)
MaxInstances == 3

MaxGets == 3

nullptr == 0

OnlySingleton ==
    UNCHANGED <<texts, props, nextUuid, last, left, commits, calls, seen,
                overall_status, keylog, other_status, dircontent, icmp_uuid,
                flagqueue, eventmap>>

InitSingleton ==
    /\ texts = <<>>
    /\ props = <<>>
    /\ nextUuid = 0
    /\ last = Did("none", 0, 0, <<>>)
    /\ left = <<>>
    /\ commits = <<>>
    /\ calls = <<Idle>>
    /\ seen = <<>>
    /\ Constructed_Key(NewKey(kOk, ""))
    /\ other_status = None
    /\ dircontent = None
    /\ icmp_uuid = None
    /\ flagqueue = None
    /\ eventmap = None
    /\ singleton = [ms_instance |-> nullptr, made |-> 0, alive |-> {},
                    through_get |-> {}, returned |-> <<>>,
                    thread |-> [t \in 1..MaxThreads |->
                                   [pc |-> "idle", obj |-> nullptr]]]

\* ms_instance = unique_ptr(obj): the unique_ptr takes obj and deletes the
\* instance it held.
reset(s, obj) ==
    [s EXCEPT !.ms_instance = obj,
              !.alive = IF s.ms_instance = obj THEN @
                        ELSE @ \ {s.ms_instance}]

\* The constructor Singleton(), run by the constructor of every
\* inheriting_t: ms_instance = unique_ptr(nullptr).
Singleton_ctor(s) ==
    reset([s EXCEPT !.made = @ + 1, !.alive = @ \cup {s.made + 1}], nullptr)

\* get(): the test "if ( ! ms_instance )".
get_test(t) ==
    /\ singleton.thread[t].pc = "idle"
    /\ Len(singleton.returned)
         + Cardinality({u \in 1..MaxThreads :
                           singleton.thread[u].pc # "idle"}) < MaxGets
    /\ singleton' = [singleton EXCEPT !.thread[t].pc =
                        IF singleton.ms_instance = nullptr THEN "new"
                        ELSE "return"]
    /\ OnlySingleton

\* get(): new inheriting_type().
get_new(t) ==
    /\ singleton.thread[t].pc = "new"
    /\ singleton.made < MaxInstances
    /\ singleton' = [Singleton_ctor(singleton) EXCEPT
                        !.through_get = @ \cup {singleton.made + 1},
                        !.thread[t] = [pc |-> "assign",
                                       obj |-> singleton.made + 1]]
    /\ OnlySingleton

\* get(): ms_instance = unique_ptr(the new instance).
get_assign(t) ==
    /\ singleton.thread[t].pc = "assign"
    /\ singleton' = [reset(singleton, singleton.thread[t].obj) EXCEPT
                        !.thread[t].pc = "return"]
    /\ OnlySingleton

\* get(): return ms_instance.get().
get_return(t) ==
    /\ singleton.thread[t].pc = "return"
    /\ singleton' = [singleton EXCEPT
                        !.returned = Append(@, singleton.ms_instance),
                        !.thread[t] = [pc |-> "idle", obj |-> nullptr]]
    /\ OnlySingleton

\* IcmpConcludant(), the public constructor, called outside get().
IcmpConcludant_ctor ==
    /\ singleton.made < MaxInstances
    /\ singleton' = Singleton_ctor(singleton)
    /\ OnlySingleton

NextSingleton ==
    \/ \E t \in 1..MaxThreads : get_test(t)
    \/ \E t \in 1..MaxThreads : get_new(t)
    \/ \E t \in 1..MaxThreads : get_assign(t)
    \/ \E t \in 1..MaxThreads : get_return(t)
    \/ IcmpConcludant_ctor

SpecSingleton == InitSingleton /\ [][NextSingleton]_vars

\* C35: every call of get() returns the same instance, get() creates at
\* most one instance, and a returned instance is neither destroyed nor
\* replaced afterwards, whatever else is constructed.
C35_OneInstanceForEver ==
    /\ \A i, j \in 1..Len(singleton.returned) :
          singleton.returned[i] = singleton.returned[j]
    /\ Cardinality(singleton.through_get) <= 1
    /\ \A i \in 1..Len(singleton.returned) :
          /\ singleton.returned[i] \in singleton.alive
          /\ singleton.ms_instance = singleton.returned[i]

(***************************************************************************)
(* FlagQueue<flags_t>, a std::vector of pointers.  The variable holds the  *)
(* vector (items), the pointers pushed and those pop returned, each in the *)
(* order of the calls, and whether the last call threw.                    *)
(***************************************************************************)
MaxPushes == 4

FlagPointers == {"f1", "f2", "f3"}

\* The element at the other end of the vector.
at_back(v, n) == v[Len(v) - n]

\* std::vector::at, positions from 0.
at(v, n) == v[n + 1]

\* std::vector::erase(begin()).
erase_begin(v) == Tail(v)

emplace_back(v, flags) == Append(v, flags)

OnlyFlagQueue ==
    UNCHANGED <<texts, props, nextUuid, last, left, commits, calls, seen,
                overall_status, keylog, other_status, dircontent, icmp_uuid,
                singleton, eventmap>>

InitFlagQueue ==
    /\ texts = <<>>
    /\ props = <<>>
    /\ nextUuid = 0
    /\ last = Did("none", 0, 0, <<>>)
    /\ left = <<>>
    /\ commits = <<>>
    /\ calls = <<Idle>>
    /\ seen = <<>>
    /\ Constructed_Key(NewKey(kOk, ""))
    /\ other_status = None
    /\ dircontent = None
    /\ icmp_uuid = None
    /\ singleton = None
    /\ eventmap = None
    /\ flagqueue = [items |-> <<>>, pushed |-> <<>>, popped |-> <<>>,
                    thrown |-> FALSE]

push(flags) ==
    /\ Len(flagqueue.pushed) < MaxPushes
    /\ flagqueue' = [flagqueue EXCEPT
                        !.items = emplace_back(@, flags),
                        !.pushed = Append(@, flags),
                        !.thrown = FALSE]
    /\ OnlyFlagQueue

\* pop(); at(0) throws std::out_of_range on an empty vector.
pop ==
    /\ flagqueue' =
          IF Len(flagqueue.items) = 0
          THEN [flagqueue EXCEPT !.thrown = TRUE]
          ELSE [flagqueue EXCEPT
                   !.items = erase_begin(@),
                   !.popped = Append(@, at(flagqueue.items, 0)),
                   !.thrown = FALSE]
    /\ OnlyFlagQueue

NextFlagQueue ==
    \/ \E flags \in FlagPointers : push(flags)
    \/ pop

SpecFlagQueue == InitFlagQueue /\ [][NextFlagQueue]_vars

\* C36: FlagQueue is first-in first-out: the elements popped so far,
\* followed by the elements still in the queue, are the elements pushed, in
\* the order they were pushed.
C36_FirstInFirstOut ==
    flagqueue.popped \o flagqueue.items = flagqueue.pushed

\* Two different elements were popped and a third is still in the queue.
C36_Witness ==
    /\ Len(flagqueue.popped) >= 2
    /\ flagqueue.popped[1] # flagqueue.popped[2]
    /\ Len(flagqueue.items) >= 1

(***************************************************************************)
(* EventMap and EventConnector.  eventconn maps the connected signal names *)
(* to their connector: the signal function, the receiver function, the     *)
(* receiving instance and the argument list.  What the two functions       *)
(* return is an input of emit.  The variable also holds the last emit:     *)
(* its name, the returns of the functions, what ran, in order, and what    *)
(* emit returned.                                                          *)
(***************************************************************************)
SigNames == {"c2_c1", "c1_c2"}

Receivers == {"C1", "C2"}

ArgLists == {<<FALSE>>, <<TRUE>>}

\* A connector that runs the receiver and the notification whatever the
\* functions return.
invoke_all(ec, sret, rret) ==
    <<<<"signal", ec.recv_instance>>, <<"receiver", ec.recv_instance>>,
      <<"notify", ec.recv_instance>>>>

\* EventConnector(signal, receiver, receiving_instance); the functions are
\* named after the instance they belong to.
EventConnector(receiving_instance) ==
    [recv_instance |-> receiving_instance, argument_list |-> <<>>]

set_variant(ec, il) == [ec EXCEPT !.argument_list = il]

\* EventConnector::invoke: what runs, in order, when the signal function
\* returns sret and the receiver function returns rret.
invoke(ec, sret, rret) ==
    <<<<"signal", ec.recv_instance>>>>
      \o (IF sret
          THEN <<<<"receiver", ec.recv_instance>>>>
                 \o (IF rret THEN <<<<"notify", ec.recv_instance>>>>
                     ELSE <<>>)
          ELSE <<>>)

contains(signame) == signame \in DOMAIN eventmap.eventconn

OnlyEventMap ==
    UNCHANGED <<texts, props, nextUuid, last, left, commits, calls, seen,
                overall_status, keylog, other_status, dircontent, icmp_uuid,
                singleton, flagqueue>>

InitEventMap ==
    /\ texts = <<>>
    /\ props = <<>>
    /\ nextUuid = 0
    /\ last = Did("none", 0, 0, <<>>)
    /\ left = <<>>
    /\ commits = <<>>
    /\ calls = <<Idle>>
    /\ seen = <<>>
    /\ Constructed_Key(NewKey(kOk, ""))
    /\ other_status = None
    /\ dircontent = None
    /\ icmp_uuid = None
    /\ singleton = None
    /\ flagqueue = None
    /\ eventmap = [eventconn |-> <<>>, emitted |-> <<>>]

\* EventMap::ref, the body of absl_connect: eventconn[signame] = ec.
ref(signame, receiving_instance) ==
    /\ eventmap' = [eventmap EXCEPT !.eventconn =
          [n \in DOMAIN eventmap.eventconn \cup {signame} |->
              IF n = signame THEN EventConnector(receiving_instance)
              ELSE eventmap.eventconn[n]]]
    /\ OnlyEventMap

\* EventMap::emit(cls_ptr, signame, il).
emit(signame, il, sret, rret) ==
    /\ eventmap' =
          IF ~contains(signame)
          THEN [eventmap EXCEPT !.emitted =
                   <<[signame |-> signame, sret |-> sret, rret |-> rret,
                      ran |-> <<>>, ret |-> FALSE]>>]
          ELSE LET ec == set_variant(eventmap.eventconn[signame], il)
               IN  [eventmap EXCEPT
                       !.eventconn[signame] = ec,
                       !.emitted =
                          <<[signame |-> signame, sret |-> sret,
                             rret |-> rret, ran |-> invoke(ec, sret, rret),
                             ret |-> FALSE]>>]
    /\ OnlyEventMap

NextEventMap ==
    \/ \E signame \in SigNames, r \in Receivers : ref(signame, r)
    \/ \E signame \in SigNames, il \in ArgLists, sret, rret \in BOOLEAN :
          emit(signame, il, sret, rret)

SpecEventMap == InitEventMap /\ [][NextEventMap]_vars

\* What the specification lets an emit of a connected name run.
SignalThenReceiverThenNotify(inst, sret, rret) ==
    IF ~sret THEN <<<<"signal", inst>>>>
    ELSE IF ~rret THEN <<<<"signal", inst>>, <<"receiver", inst>>>>
    ELSE <<<<"signal", inst>>, <<"receiver", inst>>, <<"notify", inst>>>>

\* C37: an emit of a connected name runs the signal function first, the
\* receiver only if the signal function returned true and the notification
\* of the receiving instance only if the receiver returned true; an emit of
\* a name that was never connected returns false and runs nothing.
C37_EmitRunsSignalThenReceiver ==
    [][\A e \in Range(eventmap'.emitted) :
          eventmap'.emitted # eventmap.emitted =>
             IF e.signame \in DOMAIN eventmap.eventconn
             THEN e.ran = SignalThenReceiverThenNotify(
                             eventmap.eventconn[e.signame].recv_instance,
                             e.sret, e.rret)
             ELSE e.ran = <<>> /\ e.ret = FALSE]_vars

\* A connected name was emitted, its signal function returned true and its
\* receiver false: the receiver ran and nothing was notified.
C37_Witness ==
    \E e \in Range(eventmap.emitted) :
        /\ e.sret /\ ~e.rret
        /\ Len(e.ran) = 2
        /\ e.signame \in DOMAIN eventmap.eventconn

(***************************************************************************)
(* The value properties of a Key and its copies.  overall_status is the    *)
(* Key x that is copied or moved from; other_status holds a second Key     *)
(* (key), default constructed at first, that is constructed from x or      *)
(* assigned x, and the number of such copies made.                         *)
(***************************************************************************)
kValueUntouched == 18

kValueForKeyAvailable == 19

MaxCopies == 2

PropertyCodes == {kOk, kNotFound}

Targets == {"overall_status", "other_status"}

OnlyKeys ==
    UNCHANGED <<texts, props, nextUuid, last, left, commits, calls, seen,
                keylog, dircontent, icmp_uuid, singleton, flagqueue,
                eventmap>>

InitKeyCopy ==
    /\ texts = <<>>
    /\ props = <<>>
    /\ nextUuid = 0
    /\ last = Did("none", 0, 0, <<>>)
    /\ left = <<>>
    /\ commits = <<>>
    /\ calls = <<Idle>>
    /\ seen = <<>>
    /\ \E c \in UpdateCodes, m \in Messages : Constructed_Key(NewKey(c, m))
    /\ other_status = [key |-> NewKey(kOk, ""), copies |-> 0]
    /\ dircontent = None
    /\ icmp_uuid = None
    /\ singleton = None
    /\ flagqueue = None
    /\ eventmap = None

\* A member function that changes only the Key it is called on: the Key
\* named by target becomes k.
called_on(target, k) ==
    /\ IF target = "overall_status"
       THEN overall_status' = k /\ UNCHANGED other_status
       ELSE other_status' = [other_status EXCEPT !.key = k]
            /\ UNCHANGED overall_status
    /\ OnlyKeys

this(target) ==
    IF target = "overall_status" THEN overall_status ELSE other_status.key

keyChanged(target) ==
    called_on(target, [this(target) EXCEPT !.status_value = kChanged])

valueNew(target) ==
    called_on(target, [this(target) EXCEPT
                          !.status_value = kChanged,
                          !.status_value_pair = kValueUntouched])

valueChanged(target) ==
    called_on(target, [this(target) EXCEPT
                          !.status_value = kChanged,
                          !.status_value_pair = kValueForKeyAvailable])

valueUnmodified(target) ==
    called_on(target, [this(target) EXCEPT
                          !.status_value = kValueUntouched,
                          !.status_value_pair = kOk])

keyUnmodified(target) ==
    called_on(target, [this(target) EXCEPT !.status_value = kOk])

valueUnknown(target) ==
    called_on(target, [this(target) EXCEPT
                          !.status_value = kUnknown,
                          !.status_value_pair = kValueForKeyUnavailable])

setStatusValueProperty(target, status) ==
    called_on(target, [this(target) EXCEPT !.status_value = status])

setStatusKeyValueProperty(target, status) ==
    called_on(target, [this(target) EXCEPT !.status_value_pair = status])

\* Key(uintptr_t rep): rep_(rep), the value properties by their default
\* member initializers.
Key_of_rep(rep) ==
    [rep               |-> rep,
     status_value      |-> kValueForKeyUnavailable,
     status_value_pair |-> kInvalidArgument]

\* Key(const Key& x) : Key(x.rep_)
Key_copy ==
    /\ other_status.copies < MaxCopies
    /\ other_status' = [key |-> Key_of_rep(overall_status.rep),
                        copies |-> other_status.copies + 1]
    /\ UNCHANGED overall_status
    /\ OnlyKeys

\* Key(Key&& x) : Key(x.rep_) { x.rep_ = MovedFromRep(); }
Key_move ==
    /\ other_status.copies < MaxCopies
    /\ other_status' = [key |-> Key_of_rep(overall_status.rep),
                        copies |-> other_status.copies + 1]
    /\ overall_status' = [overall_status EXCEPT !.rep = MovedFromRep]
    /\ OnlyKeys

\* Key::operator=(const Key& x)
assign_copy ==
    /\ other_status.copies < MaxCopies
    /\ other_status' = [other_status EXCEPT
                           !.key.rep = assign(@, overall_status.rep),
                           !.copies = @ + 1]
    /\ UNCHANGED overall_status
    /\ OnlyKeys

\* Key::operator=(Key&& x)
assign_move ==
    /\ other_status.copies < MaxCopies
    /\ other_status' = [other_status EXCEPT
                           !.key.rep = assign(@, overall_status.rep),
                           !.copies = @ + 1]
    /\ overall_status' = [overall_status EXCEPT
                             !.rep = moved(other_status.key.rep, @)]
    /\ OnlyKeys

NextKeyCopy ==
    \/ \E target \in Targets : keyChanged(target)
    \/ \E target \in Targets : valueNew(target)
    \/ \E target \in Targets : valueChanged(target)
    \/ \E target \in Targets : valueUnmodified(target)
    \/ \E target \in Targets : keyUnmodified(target)
    \/ \E target \in Targets : valueUnknown(target)
    \/ \E target \in Targets, status \in PropertyCodes :
          setStatusValueProperty(target, status)
    \/ \E target \in Targets, status \in PropertyCodes :
          setStatusKeyValueProperty(target, status)
    \/ Key_copy
    \/ Key_move
    \/ assign_copy
    \/ assign_move

SpecKeyCopy == InitKeyCopy /\ [][NextKeyCopy]_vars

\* C38: a Key made by copy or move construction from a Key x, or assigned
\* x by copy or move, has the status_value and the status_value_pair that
\* x had.
C38_CopiesCarryTheValueProperties ==
    [][other_status'.copies # other_status.copies =>
          /\ other_status'.key.status_value = overall_status.status_value
          /\ other_status'.key.status_value_pair
               = overall_status.status_value_pair]_vars

====
